---------------------------- MODULE Spec2Model ----------------------------
(***************************************************************************)
(* A model of Simbody's ExponentialSpringForce                             *)
(* (Simbody/src/ExponentialSpringForce.cpp): the friction-coefficient      *)
(* store, the force evaluation realizeSubsystemDynamicsImpl, the           *)
(* sliding-state derivative realizeSubsystemAccelerationImpl, the          *)
(* potential-energy query, the spring-zero reset, and the step boundary    *)
(* at which the auto-update spring zero is swapped in.                     *)
(*                                                                         *)
(* Arithmetic.  SimTK::Real is a double.  Finite values are modelled by the *)
(* rationals, held exactly as <<numerator, denominator>> in lowest terms   *)
(* with a positive denominator, so rounding is outside the model; the two  *)
(* infinities and NaN are values of the model, with the IEEE 754 rules for *)
(* arithmetic and comparison on them (std::exp overflows to +infinity).  A *)
(* vector norm is held exactly as c*sqrt(r) with r square-free; where the  *)
(* code divides by a norm the inputs are drawn so that the norm is         *)
(* rational.                                                               *)
(*                                                                         *)
(* Operators hand intermediate values on as parameters (rather than naming *)
(* them in one long LET), one operator per group of statements.            *)
(***************************************************************************)
EXTENDS Integers, Sequences, FiniteSets, TLC

-----------------------------------------------------------------------------
(* Arithmetic standing for SimTK::Real.  A finite value is <<n, d>> with    *)
(* d > 0 and gcd(n, d) = 1; +infinity, -infinity and NaN are <<1, 0>>,      *)
(* <<-1, 0>> and <<0, 0>>.  A finite result whose numerator or denominator  *)
(* would leave the range of the model's integers is NaR, <<0, -1>>: it      *)
(* propagates through arithmetic, and an evaluation that produces one is    *)
(* outside the model.                                                       *)

\* Largest numerator or denominator the model holds.
RatMax == 1000000000

Abs(i) == IF i < 0 THEN -i ELSE i

RECURSIVE GCD(_, _)
GCD(a, b) == IF b = 0 THEN a ELSE GCD(b, a % b)

PosInf == <<1, 0>>
NegInf == <<-1, 0>>
NaN == <<0, 0>>
NaR == <<0, -1>>

\* A finite number; an infinity or NaN; a value of the model.
IsNum(a) == a[2] > 0
IsSpecial(a) == a[2] = 0
InModel(a) == a[2] >= 0
\* A value that compares: anything of the model but NaN.
Ordered(a) == a[2] > 0 \/ (a[2] = 0 /\ a[1] # 0)

\* x*y fits the range.
MulFits(x, y) == x = 0 \/ y = 0 \/ Abs(x) <= RatMax \div Abs(y)

\* n/d in lowest terms, denominator positive (d # 0).
RatG(n, d, g) ==
    IF d < 0 THEN <<(-n) \div g, (-d) \div g>> ELSE <<n \div g, d \div g>>
Rat(n, d) == RatG(n, d, GCD(Abs(n), Abs(d)))

I2R(i) == <<i, 1>>
Zero == <<0, 1>>
One == <<1, 1>>

RNeg(a) == <<-a[1], a[2]>>

Clip(r) == IF Abs(r[1]) <= RatMax THEN r ELSE NaR

\* a + b over the denominators ad = a[2]/g and bd = b[2]/g, g their gcd.
RAddD(a, b, ad, bd) ==
    IF MulFits(a[1], bd) /\ MulFits(b[1], ad) /\ MulFits(ad, b[2])
    THEN Clip(Rat(a[1] * bd + b[1] * ad, ad * b[2]))
    ELSE NaR
RAddG(a, b, g) == RAddD(a, b, a[2] \div g, b[2] \div g)
\* a + b where one of them is an infinity or NaN.
RAddS(a, b) ==
    IF a = NaN \/ b = NaN THEN NaN
    ELSE IF IsSpecial(a) /\ IsSpecial(b) THEN (IF a = b THEN a ELSE NaN)
    ELSE IF IsSpecial(a) THEN a
    ELSE b
RAdd(a, b) ==
    IF ~(InModel(a) /\ InModel(b)) THEN NaR
    ELSE IF IsSpecial(a) \/ IsSpecial(b) THEN RAddS(a, b)
    ELSE RAddG(a, b, GCD(a[2], b[2]))

RSub(a, b) == RAdd(a, RNeg(b))

\* (n1/d1) * (n2/d2), already reduced crosswise.
RMulC(n1, n2, d1, d2) ==
    IF MulFits(n1, n2) /\ MulFits(d1, d2) THEN <<n1 * n2, d1 * d2>> ELSE NaR
RMulG(a, b, g1, g2) ==
    RMulC(a[1] \div g1, b[1] \div g2, a[2] \div g2, b[2] \div g1)
\* a * b where one of them is an infinity or NaN (0 * infinity is NaN).
RMulS(a, b) ==
    IF a[1] = 0 \/ b[1] = 0 THEN NaN
    ELSE IF (a[1] > 0) = (b[1] > 0) THEN PosInf
    ELSE NegInf
RMul(a, b) ==
    IF ~(InModel(a) /\ InModel(b)) THEN NaR
    ELSE IF IsSpecial(a) \/ IsSpecial(b) THEN RMulS(a, b)
    ELSE IF a[1] = 0 \/ b[1] = 0 THEN Zero
    ELSE RMulG(a, b, GCD(Abs(a[1]), b[2]), GCD(Abs(b[1]), a[2]))

\* a / b where one of them is an infinity or NaN, or b is zero (taken as
\* +0: x/0 is an infinity of the sign of x, 0/0 is NaN).
RDivS(a, b) ==
    IF a = NaN \/ b = NaN THEN NaN
    ELSE IF IsSpecial(a) /\ IsSpecial(b) THEN NaN
    ELSE IF IsSpecial(a) THEN (IF b[1] < 0 THEN RNeg(a) ELSE a)
    ELSE IF IsSpecial(b) THEN Zero
    ELSE IF a[1] = 0 THEN NaN
    ELSE IF a[1] > 0 THEN PosInf
    ELSE NegInf
RDiv(a, b) ==
    IF ~(InModel(a) /\ InModel(b)) THEN NaR
    ELSE IF IsSpecial(a) \/ IsSpecial(b) \/ b[1] = 0 THEN RDivS(a, b)
    ELSE RMul(a, IF b[1] < 0 THEN <<-b[2], -b[1]>> ELSE <<b[2], b[1]>>)

\* a < b, decided on the continued-fraction expansions so that no product
\* of a large numerator with a large denominator is formed.
RECURSIVE RLtNum(_, _)
RLtNum(a, b) ==
    LET fa == a[1] \div a[2]
        fb == b[1] \div b[2]
    IN  IF fa # fb THEN fa < fb
        ELSE IF b[1] % b[2] = 0 THEN FALSE
        ELSE IF a[1] % a[2] = 0 THEN TRUE
        ELSE RLtNum(<<b[2], b[1] % b[2]>>, <<a[2], a[1] % a[2]>>)

\* A comparison with NaN is false.
RLt(a, b) ==
    IF ~(Ordered(a) /\ Ordered(b)) THEN FALSE
    ELSE IF IsSpecial(a) \/ IsSpecial(b)
         THEN a # b /\ (a = NegInf \/ b = PosInf)
    ELSE RLtNum(a, b)
RGt(a, b) == RLt(b, a)
RLe(a, b) == Ordered(a) /\ Ordered(b) /\ ~RLt(b, a)
RAbs(a) == <<Abs(a[1]), a[2]>>

-----------------------------------------------------------------------------
(* SimTK::Vec3 as a triple of rationals.                                   *)

Vec(x, y, z) == <<x, y, z>>
VZero == <<Zero, Zero, Zero>>
VAdd(u, v) == Vec(RAdd(u[1], v[1]), RAdd(u[2], v[2]), RAdd(u[3], v[3]))
VSub(u, v) == Vec(RSub(u[1], v[1]), RSub(u[2], v[2]), RSub(u[3], v[3]))
VScale(c, v) == Vec(RMul(c, v[1]), RMul(c, v[2]), RMul(c, v[3]))
VDiv(v, c) == Vec(RDiv(v[1], c), RDiv(v[2], c), RDiv(v[3], c))
VIsNum(v) == IsNum(v[1]) /\ IsNum(v[2]) /\ IsNum(v[3])
VInModel(v) == InModel(v[1]) /\ InModel(v[2]) /\ InModel(v[3])

\* Largest k with k*k <= m, by Newton's iteration from above.
RECURSIVE ISqrtFrom(_, _)
ISqrtFrom(m, x) ==
    IF (x + m \div x) \div 2 >= x THEN x
    ELSE ISqrtFrom(m, (x + m \div x) \div 2)
ISqrt(m) == IF m = 0 THEN 0 ELSE ISqrtFrom(m, m)

\* Largest k with k*k dividing m (m >= 1).
RECURSIVE SquarePartFrom(_, _)
SquarePartFrom(m, k) ==
    IF k = 1 THEN 1
    ELSE IF m % (k * k) = 0 THEN k ELSE SquarePartFrom(m, k - 1)
SquarePart(m) == SquarePartFrom(m, ISqrt(m))

\* Least common multiple, 0 when it leaves the range.
LCMG(a, b, g) == IF MulFits(a \div g, b) THEN (a \div g) * b ELSE 0
LCM(a, b) == IF a = 0 \/ b = 0 THEN 0 ELSE LCMG(a, b, GCD(a, b))

\* The largest integer the model squares.
IntMax == 1000

\* Vec3::norm(), exactly: the value c*sqrt(r), r a square-free integer.
\* v is written q*(a,b,e) with a,b,e coprime integers, so that only the
\* integer m = a*a+b*b+e*e is ever squared.  NoNorm (r = 0) marks a norm that
\* is not representable: the coprime integers leave the range of the model,
\* or a component is not finite.
NoNorm == [c |-> NaR, r |-> 0]
VNormK(q, m, k) == [c |-> RMul(q, I2R(k)), r |-> m \div (k * k)]
VNormM(q, m) == VNormK(q, m, SquarePart(m))
VNormG(a, b, e, D, g) ==
    IF a \div g > IntMax \/ b \div g > IntMax \/ e \div g > IntMax
    THEN NoNorm
    ELSE VNormM(Rat(g, D),
                (a \div g) * (a \div g) + (b \div g) * (b \div g)
                    + (e \div g) * (e \div g))
VNormI(a, b, e, D) == VNormG(a, b, e, D, GCD(GCD(a, b), e))
VNormD(v, D) ==
    IF D = 0 THEN NoNorm
    ELSE IF ~(MulFits(v[1][1], D \div v[1][2])
               /\ MulFits(v[2][1], D \div v[2][2])
               /\ MulFits(v[3][1], D \div v[3][2]))
         THEN NoNorm
    ELSE VNormI(Abs(v[1][1]) * (D \div v[1][2]),
                Abs(v[2][1]) * (D \div v[2][2]),
                Abs(v[3][1]) * (D \div v[3][2]), D)
VNorm(v) ==
    IF ~VIsNum(v) THEN NoNorm
    ELSE IF v = VZero THEN [c |-> Zero, r |-> 1]
    ELSE VNormD(v, LCM(LCM(v[1][2], v[2][2]), v[3][2]))

Representable(n) == n.r # 0 /\ IsNum(n.c)

\* The norm is a rational number.
IsRational(n) == n.r = 1

\* t*t < m for a rational t >= 0 and an integer m that is no perfect
\* square; t is squared only where its integer part does not decide.
SqLtS(t, m, s) ==
    IF RLe(t, I2R(s)) THEN TRUE
    ELSE IF RLe(I2R(s + 1), t) THEN FALSE
    ELSE t[1] * t[1] < m * t[2] * t[2]
SqLt(t, m) == SqLtS(t, m, ISqrt(m))

\* The comparison of the norm n with L is decided within the range of the
\* model's integers.
ComparableT(t, m, s) ==
    /\ IsNum(t)
    /\ \/ RLe(t, I2R(s))
       \/ RLe(I2R(s + 1), t)
       \/ t[1] <= IntMax /\ t[2] <= IntMax /\ MulFits(m, t[2] * t[2])
Comparable(n, L) ==
    /\ Representable(n)
    /\ InModel(L)
    /\ (IsNum(L) /\ RLt(Zero, L) /\ n.c # Zero /\ n.r # 1) =>
          ComparableT(RDiv(L, n.c), n.r, ISqrt(n.r))

\* norm > L and norm < L; false for a NaN.
NormGt(n, L) ==
    IF ~Representable(n) THEN FALSE
    ELSE IF ~IsNum(L) THEN L = NegInf
    ELSE IF RLt(L, Zero) THEN TRUE
    ELSE IF n.c = Zero THEN FALSE
    ELSE IF n.r = 1 THEN RLt(L, n.c)
    ELSE SqLt(RDiv(L, n.c), n.r)

NormLt(n, L) ==
    IF ~Representable(n) THEN FALSE
    ELSE IF ~IsNum(L) THEN L = PosInf
    ELSE IF RLe(L, Zero) THEN FALSE
    ELSE IF n.c = Zero THEN TRUE
    ELSE IF n.r = 1 THEN RLt(n.c, L)
    ELSE ~SqLt(RDiv(L, n.c), n.r)

-----------------------------------------------------------------------------
(* Constants of the program.                                               *)

\* The ceiling of the normal force, the literal passed to ClampAboveZero.
fzMax == 100000

\* The literal 0.001 both speeds are compared with in the Acceleration stage.
SettleTol == Rat(1, 1000)

\* SimTK::SignificantReal, the numerical-noise threshold.  Its value is set
\* in SimTKcommon; the model takes a threshold far below every other
\* magnitude of the model except the "noise" inputs chosen below it.
SignificantReal == Rat(1, 1000000)

\* std::exp on the arguments the inputs of the model produce, rounded to one
\* significant digit (TLA+ has no transcendental functions); exp(710) is
\* above the largest double, 1.8e308 = exp(709.78), and overflows.
Exp(x) ==
    CASE x = I2R(-15) -> Rat(3, 10000000)
      [] x = I2R(-1)  -> Rat(2, 5)
      [] x = Zero     -> One
      [] x = I2R(1)   -> I2R(3)
      [] x = I2R(13)  -> I2R(400000)
      [] x = I2R(710) -> PosInf

-----------------------------------------------------------------------------
(* The contact plane: a Transform X_GP with rotation R (its columns are    *)
(* the plane's axes in Ground) and origin T.                               *)

Row(M, i, v) ==
    RAdd(RAdd(RMul(I2R(M[i][1]), v[1]), RMul(I2R(M[i][2]), v[2])),
         RMul(I2R(M[i][3]), v[3]))

MatVec(M, v) == Vec(Row(M, 1, v), Row(M, 2, v), Row(M, 3, v))

Transpose(M) ==
    << <<M[1][1], M[2][1], M[3][1]>>,
       <<M[1][2], M[2][2], M[3][2]>>,
       <<M[1][3], M[2][3], M[3][3]>> >>

\* Transform::shiftBaseStationToFrame: ~R * (p_G - T).
shiftBaseStationToFrame(X, pG) == MatVec(Transpose(X.R), VSub(pG, X.T))
\* Transform::shiftFrameStationToBase: R * p + T.
shiftFrameStationToBase(X, p) == VAdd(MatVec(X.R, p), X.T)
\* Transform::xformBaseVecToFrame: ~R * v_G.
xformBaseVecToFrame(X, vG) == MatVec(Transpose(X.R), vG)
\* Transform::xformFrameVecToBase: R * v.
xformFrameVecToBase(X, v) == MatVec(X.R, v)

-----------------------------------------------------------------------------
(* The force evaluation, realizeSubsystemDynamicsImpl, as the code computes *)
(* it.                                                                      *)

\* A cache entry that is not realized: it holds no value.
Invalid == <<>>

\* if(abs(v[i]) < SignificantReal) v[i] = 0.0;
Snap(x) == IF RLt(RAbs(x), SignificantReal) THEN Zero ELSE x

\* The plane-local velocity after the two snapping statements: components 0
\* and 1 are snapped, component 2 is taken as transformed.
SnapVelocity(v) == Vec(Snap(v[1]), Snap(v[2]), v[3])

\* Position and velocity in the plane frame, resolved into normal and
\* tangential parts.
KinematicsOf(pG, vG, p, v) ==
    [p_G |-> pG, v_G |-> vG, p |-> p, v |-> v, pz |-> p[3], vz |-> v[3],
     pxy |-> Vec(p[1], p[2], Zero), vxy |-> Vec(v[1], v[2], Zero)]
Kinematics(X, pG, vG) ==
    KinematicsOf(pG, vG, shiftBaseStationToFrame(X, pG),
                 SnapVelocity(xformBaseVecToFrame(X, vG)))

ClampAboveZero(value, max) ==
    IF RGt(value, max) THEN max
    ELSE IF RLt(value, Zero) THEN Zero
    ELSE value

\* The normal force: elastic part, damping part, clamped total.
NormalSum(fzElas, fzDamp) ==
    [fzElas |-> fzElas, fzDamp |-> fzDamp,
     fz |-> ClampAboveZero(RAdd(fzElas, fzDamp), I2R(fzMax))]
NormalDamped(prm, vz, fzElas) ==
    NormalSum(fzElas, RMul(RMul(RNeg(prm.kvNorm), vz), fzElas))
NormalForce(prm, pz, vz) ==
    NormalDamped(prm, vz,
                 RMul(prm.d1, Exp(RMul(RNeg(prm.d2), RSub(pz, prm.d0)))))

\* Real sliding = getZ(state)[indexZ]; clamped to [0,1] in a local.
\* The raw Sliding used as it is read.
SlidingUnclamped(zr) == zr
SlidingRead(zr) ==
    IF RLt(zr, Zero) THEN Zero
    ELSE IF RGt(zr, One) THEN One
    ELSE zr

\* data.mu = mus - sliding * (mus - muk)
MuBlend(ms, mk, sliding) == RSub(ms, RMul(sliding, RSub(ms, mk)))

\* Vec3::normalize() of a vector of rational, nonzero norm.
Normalize(v) == VDiv(v, VNorm(v).c)

\* fricLimit: the damper-only force, zero when the limit is negligible and
\* capped at the limit otherwise.
FricLimit(fxyLimit, fricDampSpr) ==
    IF RLt(fxyLimit, SignificantReal) THEN VZero
    ELSE IF NormGt(VNorm(fricDampSpr), fxyLimit)
         THEN VScale(fxyLimit, Normalize(fricDampSpr))
         ELSE fricDampSpr

\* The limit counted as reached when fxySpr equals it.
LimitReachedAtOrAbove(fricSpr, fxyLimit) ==
    ~NormLt(VNorm(fricSpr), fxyLimit)
\* The comparison with the limit turned around.
LimitReachedBelow(fricSpr, fxyLimit) == NormLt(VNorm(fricSpr), fxyLimit)
\* if(fxySpr > data.fxyLimit)
LimitReached(fricSpr, fxyLimit) == NormGt(VNorm(fricSpr), fxyLimit)

\* Real scale = data.fxyLimit / fxySpr, multiplied into fricElasSpr and
\* fricDampSpr when the limit is reached; they are left as they are (a
\* factor of one) when it is not.
\* The scale taken as the limit itself, without the division by fxySpr.
ScaleUndivided(fricSpr, fxyLimit) == fxyLimit
\* Real scale = data.fxyLimit / fxySpr
ScaleToLimit(fricSpr, fxyLimit) == RDiv(fxyLimit, VNorm(fricSpr).c)
SprScale(fricSpr, fxyLimit) ==
    IF LimitReached(fricSpr, fxyLimit)
    THEN ScaleToLimit(fricSpr, fxyLimit)
    ELSE One

\* The elastic force weighted by sliding instead of 1 - sliding.
BlendElasBySliding(fricElasSpr, sliding) == VScale(sliding, fricElasSpr)
\* data.fricElas = fricElasSpr * (1.0 - sliding)
BlendElas(fricElasSpr, sliding) == VScale(RSub(One, sliding), fricElasSpr)

\* data.fricDamp = fricDampSpr + (fricLimit - fricDampSpr) * sliding
BlendDamp(fricDampSpr, fricLimit, sliding) ==
    VAdd(fricDampSpr, VScale(sliding, VSub(fricLimit, fricDampSpr)))

\* The spring zero moved by the elastic force itself, without the division
\* by kpFric.
NewSprZeroUndivided(pxy, fricElas, kpFric) ==
    Vec(RAdd(pxy[1], fricElas[1]), RAdd(pxy[2], fricElas[2]), Zero)
\* The spring zero moved against the elastic force.
NewSprZeroOpposite(pxy, fricElas, kpFric) ==
    Vec(RSub(pxy[1], RDiv(fricElas[1], kpFric)),
        RSub(pxy[2], RDiv(fricElas[2], kpFric)), Zero)
\* p0 = data.pxy + data.fricElas / kpFric;  p0[2] = 0.0;
NewSprZero(pxy, fricElas, kpFric) ==
    Vec(RAdd(pxy[1], RDiv(fricElas[1], kpFric)),
        RAdd(pxy[2], RDiv(fricElas[2], kpFric)), Zero)

\* The anchor read from the update cache whenever that holds a value.
AnchorReadInCache(stateZero, cacheZero) ==
    IF Len(cacheZero) = 0 THEN stateZero ELSE cacheZero
\* The anchor the evaluation reads: getSprZero(state), the state variable,
\* not the update cache.
AnchorRead(stateZero, cacheZero) == stateZero

\* The inputs on which the model's arithmetic is exact: every norm the
\* evaluation takes is representable and comparable with the limit, and
\* rational where the evaluation divides by it.
ExactInputs(fxyLimit, fricDampSpr, fricSpr, fric) ==
    /\ Comparable(VNorm(fricDampSpr), fxyLimit)
    /\ Comparable(VNorm(fricSpr), fxyLimit)
    /\ Representable(VNorm(fric))
    /\ (~RLt(fxyLimit, SignificantReal)
            /\ NormGt(VNorm(fricDampSpr), fxyLimit))
          => IsRational(VNorm(fricDampSpr))
    /\ LimitReached(fricSpr, fxyLimit) => IsRational(VNorm(fricSpr))

\* The friction force, in the order of the code: the limit, the two
\* candidates, the scaling of the spring candidate, the blend, the new
\* spring zero.
FrictionOut(prm, pxy, mu, fxyLimit, damp0, spr0, fricElas, fricDamp, fric) ==
    [mu |-> mu, fxyLimit |-> fxyLimit, fricElas |-> fricElas,
     fricDamp |-> fricDamp, fric |-> fric, fxy |-> VNorm(fric),
     limitReached |-> LimitReached(spr0, fxyLimit),
     sprZero |-> NewSprZero(pxy, fricElas, prm.kpFric),
     exact |-> ExactInputs(fxyLimit, damp0, spr0, fric)]
FrictionBlend(prm, pxy, mu, fxyLimit, damp0, spr0, fricElas, fricDamp) ==
    FrictionOut(prm, pxy, mu, fxyLimit, damp0, spr0, fricElas, fricDamp,
                VAdd(fricElas, fricDamp))
FrictionScaled(prm, pxy, s, mu, fxyLimit, damp0, elas0, spr0, lim, scale) ==
    FrictionBlend(prm, pxy, mu, fxyLimit, damp0, spr0,
                  BlendElas(VScale(scale, elas0), s),
                  BlendDamp(VScale(scale, damp0), lim, s))
FrictionSpr(prm, pxy, sliding, mu, fxyLimit, damp0, elas0, spr0) ==
    FrictionScaled(prm, pxy, sliding, mu, fxyLimit, damp0, elas0, spr0,
                   FricLimit(fxyLimit, damp0), SprScale(spr0, fxyLimit))
FrictionCand(prm, pxy, sliding, mu, fxyLimit, damp0, elas0) ==
    FrictionSpr(prm, pxy, sliding, mu, fxyLimit, damp0, elas0,
                VAdd(elas0, damp0))
FrictionMu(prm, pxy, vxy, fz, sliding, mu, p0) ==
    FrictionCand(prm, pxy, sliding, mu, RMul(mu, fz),
                 VScale(RNeg(prm.kvFric), vxy),
                 VScale(RNeg(prm.kpFric), VSub(pxy, p0)))
Friction(prm, pxy, vxy, fz, sliding, ms, mk, p0) ==
    FrictionMu(prm, pxy, vxy, fz, sliding, MuBlend(ms, mk, sliding), p0)

\* The whole evaluation: the ExponentialSpringData it stores, and the spring
\* zero it writes to the update cache.
DynamicsOut(X, k, n, fr, f) ==
    [exact |-> fr.exact,
     data |->
       [p_G |-> k.p_G, v_G |-> k.v_G, p |-> k.p, v |-> k.v,
        pz |-> k.pz, vz |-> k.vz, pxy |-> k.pxy, vxy |-> k.vxy,
        fzElas |-> n.fzElas, fzDamp |-> n.fzDamp, fz |-> n.fz,
        mu |-> fr.mu, fxyLimit |-> fr.fxyLimit,
        fricElas |-> fr.fricElas, fricDamp |-> fr.fricDamp,
        fric |-> fr.fric, fxy |-> fr.fxy,
        limitReached |-> fr.limitReached,
        f |-> f, f_G |-> xformFrameVecToBase(X, f)],
     sprZero |-> fr.sprZero]
DynamicsFric(X, k, n, fr) ==
    DynamicsOut(X, k, n, fr, Vec(fr.fric[1], fr.fric[2], n.fz))
DynamicsNormal(X, prm, k, n, zr, ms, mk, p0) ==
    DynamicsFric(X, k, n,
                 Friction(prm, k.pxy, k.vxy, n.fz, SlidingRead(zr), ms, mk,
                          p0))
DynamicsKin(X, prm, k, zr, ms, mk, p0) ==
    DynamicsNormal(X, prm, k, NormalForce(prm, k.pz, k.vz), zr, ms, mk, p0)
Dynamics(X, prm, pG, vG, zr, ms, mk, stateZero, cacheZero) ==
    DynamicsKin(X, prm, Kinematics(X, pG, vG), zr, ms, mk,
                AnchorRead(stateZero, cacheZero))

\* Every number the evaluation stores is within the range of the model.
InRange(r) ==
    /\ VInModel(r.sprZero)
    /\ VInModel(r.data.f_G)
    /\ VInModel(r.data.fricElas)
    /\ VInModel(r.data.fricDamp)
    /\ InModel(r.data.fxyLimit)
    /\ InModel(r.data.fzElas)
    /\ InModel(r.data.fzDamp)

\* The derivative realizeSubsystemAccelerationImpl computes from the raw
\* Sliding and the data of the last force evaluation: the decay assignment
\* first, the rise assignment second, overwriting it.
\* The rise assignment made only when the limit was reached, without the
\* test of the normal force.
SlidingDotSaturatedOnly(prm, d, zr) ==
    IF d.limitReached
    THEN RMul(RDiv(One, prm.tau), RSub(One, zr))
    ELSE IF /\ NormLt(VNorm(d.vxy), SettleTol)
            /\ RLt(RAbs(d.vz), SettleTol)
         THEN RMul(RNeg(RDiv(One, prm.tau)), zr)
         ELSE Zero
\* The decay test taken at or below 0.001 instead of strictly below it.
SlidingDotAtOrBelow(prm, d, zr) ==
    IF d.limitReached \/ RLt(d.fz, SignificantReal)
    THEN RMul(RDiv(One, prm.tau), RSub(One, zr))
    ELSE IF /\ ~d.limitReached
            /\ ~NormGt(VNorm(d.vxy), SettleTol)
            /\ RLe(RAbs(d.vz), SettleTol)
         THEN RMul(RNeg(RDiv(One, prm.tau)), zr)
         ELSE Zero
\* The two assignments in the other order: the decay assignment last.
SlidingDotDecayLast(prm, d, zr) ==
    IF /\ ~d.limitReached
       /\ NormLt(VNorm(d.vxy), SettleTol)
       /\ RLt(RAbs(d.vz), SettleTol)
    THEN RMul(RNeg(RDiv(One, prm.tau)), zr)
    ELSE IF d.limitReached \/ RLt(d.fz, SignificantReal)
         THEN RMul(RDiv(One, prm.tau), RSub(One, zr))
         ELSE Zero
SlidingDot(prm, d, zr) ==
    IF d.limitReached \/ RLt(d.fz, SignificantReal)
    THEN RMul(RDiv(One, prm.tau), RSub(One, zr))
    ELSE IF /\ ~d.limitReached
            /\ NormLt(VNorm(d.vxy), SettleTol)
            /\ RLt(RAbs(d.vz), SettleTol)
         THEN RMul(RNeg(RDiv(One, prm.tau)), zr)
         ELSE Zero

\* The value calcPotentialEnergy returns; r.norm() * r.norm() is c*c*r for
\* the norm c*sqrt(r).
EnergyOf(prm, d, n) ==
    RAdd(RDiv(d.fzElas, prm.d2),
         RMul(RMul(Rat(1, 2), prm.kpFric),
              RMul(RMul(n.c, n.c), I2R(n.r))))
PotentialEnergy(prm, d, cacheZero) ==
    EnergyOf(prm, d, VNorm(VSub(d.pxy, cacheZero)))

\* The anchor of the state variable used for the energy.
EnergyAnchorInState(stateZero, cacheZero) == stateZero
\* Vec3 p0Cache = getSprZeroInCache(state): the energy uses the anchor held
\* in the update cache.
EnergyAnchor(stateZero, cacheZero) == cacheZero

\* The energy is within the range of the model.
EnergyInRange(prm, d, cacheZero) ==
    /\ Representable(VNorm(VSub(d.pxy, cacheZero)))
    /\ InModel(PotentialEnergy(prm, d, cacheZero))

\* The point resetSprZero stores: the station projected onto the plane.
\* The point stored as it is, without p[2] = 0.0.
ProjectNone(p) == p
ProjectOf(p) == Vec(p[1], p[2], Zero)
\* The station projected in the Ground frame, without the shift to the frame
\* of the plane.
ProjectStationInGround(X, pG) == ProjectOf(pG)
ProjectStation(X, pG) == ProjectOf(shiftBaseStationToFrame(X, pG))

\* The values setMuStatic leaves in (mus, muk).
MuStaticClamped(m, mk) == <<m, IF RGt(mk, m) THEN m ELSE mk>>
\* setMuStatic without its adjustment of muk.
MuStaticOnly(arg, mk) == <<IF RLt(arg, Zero) THEN Zero ELSE arg, mk>>
MuStaticResult(arg, mk) ==
    MuStaticClamped(IF RLt(arg, Zero) THEN Zero ELSE arg, mk)

\* The values setMuKinetic leaves in (mus, muk).
MuKineticClamped(k, ms) == <<IF RGt(k, ms) THEN k ELSE ms, k>>
\* setMuKinetic lowering the requested value to fit under mus.
MuKineticFitted(arg, ms) ==
    <<ms, IF RLt(arg, Zero) THEN Zero ELSE IF RGt(arg, ms) THEN ms ELSE arg>>
MuKineticResult(arg, ms) ==
    MuKineticClamped(IF RLt(arg, Zero) THEN Zero ELSE arg, ms)

\* The constructor's checks on the two coefficients.
CtorMus(m) == IF RLt(m, Zero) THEN Zero ELSE m
CtorMukClamped(ms, k0) == IF RGt(k0, ms) THEN ms ELSE k0
\* The constructor without its ordering check.
CtorMukUnordered(m, k) == IF RLt(k, Zero) THEN Zero ELSE k
CtorMuk(m, k) == CtorMukClamped(CtorMus(m), IF RLt(k, Zero) THEN Zero ELSE k)

-----------------------------------------------------------------------------
(* Inputs of the model.                                                    *)

\* Steps the integrator takes.
MaxSteps == 2

\* Arguments of the constructor and of the two setters: negative, fractional
\* and whole, so that calls arrive mis-ordered.
MuArgs == {I2R(-1), Rat(1, 2), One}

\* ExponentialSpringParameters: shape (d0, d1, d2), normal viscosity,
\* elasticity, viscosity, sliding time constant, settle velocity.
ParamChoices ==
    { [d0 |-> Zero, d1 |-> Rat(1, 2), d2 |-> One, kvNorm |-> Rat(1, 2),
       kpFric |-> I2R(2), kvFric |-> One, tau |-> Rat(1, 100),
       vSettle |-> Rat(1, 100)] }

\* The contact plane: a floor whose normal (the plane's z axis) is Ground's
\* y axis, with its origin off Ground's.
PlaneChoices ==
    { [R |-> << <<1, 0, 0>>, <<0, 0, 1>>, <<0, -1, 0>> >>,
       T |-> Vec(One, I2R(2), Zero)] }

\* Station positions in the plane frame: tangential part and height.
PxySet == { <<Zero, Zero>>, <<Rat(3, 20), Rat(1, 5)>> }
PzSet == { Zero, I2R(-13), I2R(15), I2R(-710) }
\* Station velocities in the plane frame: tangential part and normal part.
VxySet == { <<Zero, Zero>>, <<Rat(3, 10), Rat(2, 5)>>, <<Rat(1, 2), Zero>> }
VzSet == { Zero, I2R(4) }

PLocal == { Vec(a[1], a[2], h) : a \in PxySet, h \in PzSet }
\* Slow velocities: a speed at the 0.001 of the Acceleration stage (and below
\* the settle velocity of ParamChoices) along the normal, and a speed below
\* SignificantReal along a tangent and the normal.
SlowVelocities ==
    { Vec(Zero, Zero, Rat(1, 1000)),
      Vec(Rat(1, 2000000), Zero, Rat(1, 2000000)) }
VLocal == { Vec(a[1], a[2], h) : a \in VxySet, h \in VzSet } \cup SlowVelocities

\* Integrator step sizes, as multiples of the sliding time constant.
StepChoices == { Rat(3, 2) }

-----------------------------------------------------------------------------
(* State.                                                                  *)

VARIABLES
    contactPlane,    \* Transform of the contact plane
    params,          \* ExponentialSpringParameters
    p_G, v_G,        \* station position and velocity in Ground (from q, u)
    mus, muk,        \* discrete state variables indexMus, indexMuk
    sprZero,         \* auto-update discrete variable indexSprZero
    z,               \* continuous state z[indexZ], the raw Sliding
    zdot,            \* zDot[indexZ]
    sprZeroInCache,  \* update cache entry of indexSprZero
    data,            \* cache entry indexData
    stage,           \* the stage the State is realized through
    forces_G,        \* force added to the body's entry of the force array
    energy,          \* value returned by the last calcPotentialEnergy
    nSteps,          \* steps taken by the integrator
    call             \* the operation run last: its name, its argument, and
                     \* the other coefficient or the stage it found

vars == <<contactPlane, params, p_G, v_G, mus, muk, sprZero, z, zdot,
          sprZeroInCache, data, stage, forces_G, energy, nSteps, call>>

\* The record of an operation: a setter records its argument and the
\* coefficient it does not set as it found it, the force evaluation the
\* stage it found.
Call(op, arg, other0, s0) ==
    [op |-> op, arg |-> arg, other0 |-> other0, stage0 |-> s0]
NoArg == Zero
NoStage == "any"

\* Construction followed by realizeSubsystemTopologyImpl: the state
\* variables take their defaults, nothing is realized beyond that.
Init ==
    /\ contactPlane \in PlaneChoices
    /\ params \in ParamChoices
    /\ \E m \in MuArgs, k \in MuArgs :
          /\ mus = CtorMus(m)
          /\ muk = CtorMuk(m, k)
    /\ sprZero = VZero
    /\ z = One
    /\ \E pl \in PLocal, vl \in VLocal :
          /\ p_G = shiftFrameStationToBase(contactPlane, pl)
          /\ v_G = xformFrameVecToBase(contactPlane, vl)
    /\ zdot = Invalid
    /\ sprZeroInCache = Invalid
    /\ data = Invalid
    /\ stage = "Velocity"
    /\ forces_G = VZero
    /\ energy = Invalid
    /\ nSteps = 0
    /\ call = Call("construct", NoArg, Zero, NoStage)

\* A write to a state variable allocated with Stage::Dynamics invalidates
\* that stage and every cache entry computed at or above it.
InvalidateDynamics ==
    /\ stage' = "Velocity"
    /\ data' = Invalid
    /\ sprZeroInCache' = Invalid
    /\ zdot' = Invalid
    /\ forces_G' = VZero
    /\ energy' = Invalid

-----------------------------------------------------------------------------
(* Operations.                                                             *)

setMuStatic(arg) ==
    /\ mus' = MuStaticResult(arg, muk)[1]
    /\ muk' = MuStaticResult(arg, muk)[2]
    /\ InvalidateDynamics
    /\ call' = Call("setMuStatic", arg, muk, NoStage)
    /\ UNCHANGED <<contactPlane, params, p_G, v_G, sprZero, z, nSteps>>

setMuKinetic(arg) ==
    /\ mus' = MuKineticResult(arg, mus)[1]
    /\ muk' = MuKineticResult(arg, mus)[2]
    /\ InvalidateDynamics
    /\ call' = Call("setMuKinetic", arg, mus, NoStage)
    /\ UNCHANGED <<contactPlane, params, p_G, v_G, sprZero, z, nSteps>>

\* What realizeSubsystemDynamicsImpl writes, r being its results.
StoreDynamics(r) ==
    /\ r.exact
    /\ InRange(r)
    /\ data' = r.data
    /\ sprZeroInCache' = r.sprZero
    /\ forces_G' = r.data.f_G

\* realizeSubsystemDynamicsImpl.  It may be run again on a State already
\* realized to Stage::Dynamics.
realizeDynamics ==
    /\ stage \in {"Velocity", "Dynamics"}
    /\ StoreDynamics(Dynamics(contactPlane, params, p_G, v_G, z, mus, muk,
                              sprZero, sprZeroInCache))
    /\ stage' = "Dynamics"
    /\ energy' = Invalid
    /\ call' = Call("realizeDynamics", NoArg, Zero, stage)
    /\ UNCHANGED <<contactPlane, params, p_G, v_G, mus, muk, sprZero, z,
                   zdot, nSteps>>

\* realizeSubsystemAccelerationImpl: reads the data cache, writes zDot.
realizeAcceleration ==
    /\ stage = "Dynamics"
    /\ zdot' = SlidingDot(params, data, z)
    /\ stage' = "Acceleration"
    /\ call' = Call("realizeAcceleration", NoArg, Zero, NoStage)
    /\ UNCHANGED <<contactPlane, params, p_G, v_G, mus, muk, sprZero, z,
                   sprZeroInCache, data, forces_G, energy, nSteps>>

\* calcPotentialEnergy: reads the data cache and the update cache.
calcPotentialEnergy ==
    /\ stage \in {"Dynamics", "Acceleration"}
    /\ EnergyInRange(params, data, EnergyAnchor(sprZero, sprZeroInCache))
    /\ energy' = PotentialEnergy(params, data,
                                 EnergyAnchor(sprZero, sprZeroInCache))
    /\ call' = Call("calcPotentialEnergy", NoArg, Zero, NoStage)
    /\ UNCHANGED <<contactPlane, params, p_G, v_G, mus, muk, sprZero, z,
                   zdot, sprZeroInCache, data, stage, forces_G, nSteps>>

\* resetSprZero (ExponentialSpringForce::resetSpringZero).
resetSprZero ==
    /\ sprZero' = ProjectStation(contactPlane, p_G)
    /\ InvalidateDynamics
    /\ call' = Call("resetSprZero", NoArg, Zero, NoStage)
    /\ UNCHANGED <<contactPlane, params, p_G, v_G, mus, muk, z, nSteps>>

\* The value of z after a step of length h*tau along zDot.
Integrate(zr, zd, h, prm) == RAdd(zr, RMul(RMul(h, prm.tau), zd))

\* The step boundary.  The integrator advances z by zDot over a step, the
\* auto-update variable takes the value of its update cache entry, the
\* multibody system supplies the station's next position and velocity, and
\* the State is realized anew from Stage::Velocity.
AdvanceStep ==
    /\ stage = "Acceleration"
    /\ nSteps < MaxSteps
    /\ \E h \in StepChoices :
          /\ IsNum(Integrate(z, zdot, h, params))
          /\ z' = Integrate(z, zdot, h, params)
    /\ sprZero' = sprZeroInCache
    /\ \E pl \in PLocal, vl \in VLocal :
          /\ p_G' = shiftFrameStationToBase(contactPlane, pl)
          /\ v_G' = xformFrameVecToBase(contactPlane, vl)
    /\ nSteps' = nSteps + 1
    /\ InvalidateDynamics
    /\ call' = Call("AdvanceStep", NoArg, Zero, NoStage)
    /\ UNCHANGED <<contactPlane, params, mus, muk>>

Next ==
    \/ \E arg \in MuArgs : setMuStatic(arg)
    \/ \E arg \in MuArgs : setMuKinetic(arg)
    \/ realizeDynamics
    \/ realizeAcceleration
    \/ calcPotentialEnergy
    \/ resetSprZero
    \/ AdvanceStep

Spec == Init /\ [][Next]_vars

-----------------------------------------------------------------------------
(* Properties.                                                             *)

\* A force evaluation has been run on the current state: the data cache and
\* the update cache of the spring zero hold its results.
Evaluated == stage \in {"Dynamics", "Acceleration"}

\* max(x, 0) and clamp(x, 0, 1).
AtLeastZero(x) == IF RLt(x, Zero) THEN Zero ELSE x
Clamp01(x) == IF RLt(x, Zero) THEN Zero ELSE IF RLt(One, x) THEN One ELSE x

\* The norm n equals L.
NormEq(n, L) == Representable(n) /\ ~NormGt(n, L) /\ ~NormLt(n, L) /\
                (RLe(L, Zero) => (L = Zero /\ n.c = Zero))

\* The anchored-spring candidate fricSpr of the evaluation whose results
\* the caches hold, before any scaling: -kpFric*(pxy - p0) - kvFric*vxy with
\* p0 the spring zero of the state.
SpringCandidate ==
    VAdd(VScale(RNeg(params.kpFric), VSub(data.pxy, sprZero)),
         VScale(RNeg(params.kvFric), data.vxy))

\* C1: in every reachable state, from construction with any coefficients
\* and after any sequence of setMuStatic and setMuKinetic calls,
\* 0 <= muKinetic <= muStatic.
CoefficientsOrdered == RLe(Zero, muk) /\ RLe(muk, mus)

\* setMuStatic has just been called with a negative value while the kinetic
\* coefficient was positive: both coefficients are zero.
CoefficientsOrderedWitness ==
    /\ call.op = "setMuStatic"
    /\ RLt(call.arg, Zero)
    /\ RGt(call.other0, Zero)
    /\ mus = Zero
    /\ muk = Zero

\* C2: setMuStatic(x) leaves muStatic = max(x, 0); muKinetic becomes that
\* value if it was greater, and is unchanged otherwise; the sliding state
\* and the anchor are unchanged.
SetMuStaticContract ==
    [][call'.op = "setMuStatic" =>
         /\ mus' = AtLeastZero(call'.arg)
         /\ muk' = (IF RGt(muk, mus') THEN mus' ELSE muk)
         /\ z' = z
         /\ sprZero' = sprZero]_vars

\* setMuStatic has been called with a value below the kinetic coefficient,
\* which was lowered to it.
SetMuStaticWitness ==
    /\ call.op = "setMuStatic"
    /\ RLt(AtLeastZero(call.arg), call.other0)
    /\ mus = AtLeastZero(call.arg)
    /\ muk = mus

\* C3: setMuKinetic(x) leaves muKinetic = max(x, 0); muStatic is raised to
\* that value if it was smaller, and is unchanged otherwise.
SetMuKineticContract ==
    [][call'.op = "setMuKinetic" =>
         /\ muk' = AtLeastZero(call'.arg)
         /\ mus' = (IF RLt(mus, muk') THEN muk' ELSE mus)]_vars

\* setMuKinetic has been called with a value above the static coefficient,
\* which was raised to it, the requested value being kept.
SetMuKineticWitness ==
    /\ call.op = "setMuKinetic"
    /\ RGt(call.arg, call.other0)
    /\ muk = call.arg
    /\ mus = muk
    /\ RGt(mus, call.other0)

\* C4: after every force evaluation the total normal force fz lies in
\* [0, fzMax], also when fzElas + fzDamp is negative or above fzMax.
NormalForceBounded ==
    Evaluated => RLe(Zero, data.fz) /\ RLe(data.fz, I2R(fzMax))

\* C5: every force evaluation uses clamp(s, 0, 1) of the raw Sliding s for
\* the friction coefficient and for the blend, so the value used lies in
\* [0, 1] whatever s is, and it does not write s.
SlidingClampedOnRead ==
    [][call'.op = "realizeDynamics" =>
         /\ z' = z
         /\ data'.mu = RSub(mus, RMul(Clamp01(z), RSub(mus, muk)))
         /\ RLe(muk, data'.mu) /\ RLe(data'.mu, mus)
         /\ ~data'.limitReached =>
               data'.fricElas =
                  VScale(RSub(One, Clamp01(z)),
                         VScale(RNeg(params.kpFric),
                                VSub(data'.pxy, sprZero)))]_vars

\* An evaluation run on a raw Sliding below zero with distinct
\* coefficients: the coefficient it stored is that of Sliding = 0.
SlidingClampedOnReadWitness ==
    /\ call.op = "realizeDynamics"
    /\ RLt(z, Zero)
    /\ RLt(muk, mus)
    /\ data.mu = mus

\* C6: after every force evaluation the magnitude of the total friction
\* force fric does not exceed the Coulomb limit fxyLimit = mu * fz, and
\* fxyLimit >= 0.
FrictionWithinLimit ==
    Evaluated =>
        /\ Representable(data.fxy)
        /\ ~NormGt(data.fxy, data.fxyLimit)
        /\ RLe(Zero, data.fxyLimit)
        /\ data.fxyLimit = RMul(data.mu, data.fz)

\* C7, as claimed: whenever a force evaluation finds the anchored-spring
\* candidate above the limit (|fricSpr| > fxyLimit), it sets limitReached
\* and the total friction force has magnitude exactly fxyLimit.
SaturatedForceAtLimit ==
    (Evaluated /\ NormGt(VNorm(SpringCandidate), data.fxyLimit)) =>
        /\ data.limitReached
        /\ NormEq(data.fxy, data.fxyLimit)

\* C7, amended: whenever a force evaluation finds the anchored-spring
\* candidate above the limit, it sets limitReached and the magnitude of the
\* total friction force does not exceed fxyLimit; the magnitude is exactly
\* fxyLimit when the Sliding value used (the clamped one) is 0.
SaturatedForceBlended ==
    (Evaluated /\ NormGt(VNorm(SpringCandidate), data.fxyLimit)) =>
        /\ data.limitReached
        /\ Representable(data.fxy)
        /\ ~NormGt(data.fxy, data.fxyLimit)
        /\ Clamp01(z) = Zero => NormEq(data.fxy, data.fxyLimit)

\* An evaluation at Sliding = 0 (a raw value at or below zero) whose spring
\* candidate was above a positive limit: the friction force is at the
\* limit.
SaturatedForceBlendedWitness ==
    /\ Evaluated
    /\ RLe(z, Zero)
    /\ RLt(Zero, data.fxyLimit)
    /\ NormGt(VNorm(SpringCandidate), data.fxyLimit)
    /\ data.limitReached
    /\ NormEq(data.fxy, data.fxyLimit)

\* C8: after any force evaluation the pending spring zero p0 satisfies
\* -kpFric * (pxy - p0) = fricElas, the elastic friction force stored by
\* that evaluation (after the scaling and after the blend).
PendingAnchorConsistent ==
    Evaluated =>
        VScale(RNeg(params.kpFric), VSub(data.pxy, sprZeroInCache))
            = data.fricElas

\* A saturated evaluation in transition: the stored elastic force is the
\* scaled and blended one, not zero, and the pending spring zero is neither
\* the spring zero read nor the station.
PendingAnchorConsistentWitness ==
    /\ Evaluated
    /\ data.limitReached
    /\ RLt(Zero, z) /\ RLt(z, One)
    /\ data.fricElas # VZero
    /\ sprZeroInCache # sprZero
    /\ sprZeroInCache # data.pxy

\* C9: a force evaluation reads the spring zero of the state (below the
\* limit, the spring zero it writes is the one of the state moved toward the
\* station by the Sliding used) and writes only the update cache; the spring
\* zero of the state is unchanged until the step boundary, where it becomes
\* the cached value (resetSprZero apart, which sets it by hand).
AnchorAutoUpdate ==
    [][/\ call'.op = "realizeDynamics" =>
            /\ sprZero' = sprZero
            /\ Len(sprZeroInCache') = 3
            /\ ~data'.limitReached =>
                 sprZeroInCache' =
                    VAdd(data'.pxy,
                         VScale(RSub(One, Clamp01(z)),
                                VSub(sprZero, data'.pxy)))
       /\ call'.op = "AdvanceStep" => sprZero' = sprZeroInCache
       /\ call'.op \notin {"AdvanceStep", "resetSprZero"} =>
            sprZero' = sprZero]_vars

\* An evaluation that read a spring zero which only an earlier evaluation
\* can have written (it is neither the initial value nor a projected
\* station), stayed below the limit, and wrote a different one to the update
\* cache.
AnchorAutoUpdateWitness ==
    /\ call.op = "realizeDynamics"
    /\ ~data.limitReached
    /\ nSteps >= 1
    /\ <<sprZero[1], sprZero[2]>> \notin PxySet
    /\ sprZeroInCache # sprZero

\* C10: a force evaluation run again on a State already realized to
\* Stage::Dynamics, with no step boundary in between, stores the same data
\* and the same pending spring zero.
EvaluationIdempotent ==
    [][(call'.op = "realizeDynamics" /\ stage = "Dynamics") =>
           /\ data' = data
           /\ sprZeroInCache' = sprZeroInCache
           /\ forces_G' = forces_G]_vars

\* A second evaluation in a row, on a state whose pending spring zero
\* differs from the spring zero read.
EvaluationIdempotentWitness ==
    /\ call.op = "realizeDynamics"
    /\ call.stage0 = "Dynamics"
    /\ sprZeroInCache # sprZero
    /\ data.fricElas # VZero

\* The two conditions of realizeSubsystemAccelerationImpl, on the data of the
\* last force evaluation.
RiseCondition == data.limitReached \/ RLt(data.fz, SignificantReal)
BelowSettleTol ==
    NormLt(VNorm(data.vxy), SettleTol) /\ RLt(RAbs(data.vz), SettleTol)
DecayCondition == ~data.limitReached /\ BelowSettleTol

\* C11: whenever the last force evaluation saturated the friction limit or
\* its normal force is below the negligible-force threshold, the derivative
\* of Sliding is (1 - s) / tau with s the raw Sliding, also when the decay
\* condition holds at the same time.
RiseOverridesDecay ==
    (stage = "Acceleration" /\ RiseCondition)
        => zdot = RDiv(RSub(One, z), params.tau)

\* The derivative has been computed with both conditions true and not
\* saturated: the station is far from the plane and at rest.
RiseOverridesDecayWitness ==
    /\ stage = "Acceleration"
    /\ call.op = "realizeAcceleration"
    /\ DecayCondition
    /\ RLt(data.fz, SignificantReal)
    /\ z # One
    /\ zdot = RDiv(RSub(One, z), params.tau)
    /\ zdot # RDiv(RNeg(z), params.tau)

RisePositive ==
    (stage = "Acceleration" /\ RLt(data.fz, SignificantReal))
        => RGt(zdot, Zero)

\* C13 amended: whenever the normal force of the last force evaluation is
\* below the negligible-force threshold, the derivative of Sliding has the
\* sign of 1 - s, s being the raw Sliding: positive below one, zero at one
\* (the initial value), negative above one, saturated or not.
RiseTowardOne ==
    (stage = "Acceleration" /\ RLt(data.fz, SignificantReal))
        => /\ RGt(zdot, Zero) <=> RLt(z, One)
           /\ zdot = Zero <=> z = One
           /\ RLt(zdot, Zero) <=> RGt(z, One)

\* The derivative has been computed for a station above contact that moves
\* along the plane faster than the settle velocity, with Sliding below one:
\* it is positive.
RiseTowardOneWitness ==
    /\ stage = "Acceleration"
    /\ call.op = "realizeAcceleration"
    /\ RLt(data.fz, SignificantReal)
    /\ NormGt(VNorm(data.vxy), params.vSettle)
    /\ RLt(z, One)
    /\ RGt(zdot, Zero)

\* fzElas/d2 + 0.5*kpFriction*|pxy - a|^2, the square of the norm c*sqrt(r)
\* being c*c*r.
SquaredNorm(n) == RMul(RMul(n.c, n.c), I2R(n.r))
EnergyWith(a) ==
    RAdd(RDiv(data.fzElas, params.d2),
         RMul(RMul(Rat(1, 2), params.kpFric),
              SquaredNorm(VNorm(VSub(data.pxy, a)))))

\* C14: an energy query made after a force evaluation returns
\* fzElas/d2 + 0.5*kpFriction*|pxy - a|^2 with a the pending anchor that
\* force evaluation wrote, and changes nothing of the state, the sample or
\* the anchors.
EnergyQueryContract ==
    [][call'.op = "calcPotentialEnergy"
          => /\ energy' = EnergyWith(sprZeroInCache)
             /\ UNCHANGED <<contactPlane, params, p_G, v_G, mus, muk,
                            sprZero, z, zdot, sprZeroInCache, data, stage,
                            forces_G, nSteps>>]_vars

\* The energy has been queried after an evaluation that moved the pending
\* anchor away from the state anchor, and differs from the energy the state
\* anchor would give.
EnergyQueryWitness ==
    /\ call.op = "calcPotentialEnergy"
    /\ sprZeroInCache # sprZero
    /\ IsNum(energy)
    /\ energy = EnergyWith(sprZeroInCache)
    /\ energy # EnergyWith(sprZero)

\* The two candidates of the evaluation whose results the caches hold,
\* before any scaling.
ElasticCandidate == VScale(RNeg(params.kpFric), VSub(data.pxy, sprZero))
DamperCandidate == VScale(RNeg(params.kvFric), data.vxy)

\* The total friction force as each branch of the test of the limit
\* computes it from those candidates: the candidates as they are, or both
\* scaled by fxyLimit / |fricSpr|.
BranchFric(scale) ==
    VAdd(BlendElas(VScale(scale, ElasticCandidate), SlidingRead(z)),
         BlendDamp(VScale(scale, DamperCandidate),
                   FricLimit(data.fxyLimit, DamperCandidate),
                   SlidingRead(z)))
UnsaturatedFric == BranchFric(One)
SaturatedFric == BranchFric(ScaleToLimit(SpringCandidate, data.fxyLimit))

\* The evaluation was made exactly where the limit goes from unsaturated to
\* saturated: |fricSpr| = fxyLimit, not zero.
AtSaturationBoundary ==
    /\ Evaluated
    /\ RGt(data.fxyLimit, Zero)
    /\ IsRational(VNorm(SpringCandidate))
    /\ NormEq(VNorm(SpringCandidate), data.fxyLimit)

\* C15: the total friction force has no jump where the limit goes from
\* unsaturated to saturated: at |fricSpr| = fxyLimit, for the same sliding,
\* anchor, pxy and vxy, the value the saturated branch computes equals the
\* value of the unsaturated branch, which is the one stored.
NoJumpAtSaturation ==
    AtSaturationBoundary
        => /\ SaturatedFric = UnsaturatedFric
           /\ data.fric = UnsaturatedFric

\* An evaluation at the boundary with a positive limit, an elastic share in
\* the blend and a friction force that is not zero.
NoJumpAtSaturationWitness ==
    /\ AtSaturationBoundary
    /\ call.op = "realizeDynamics"
    /\ ~data.limitReached
    /\ RLt(SlidingRead(z), One)
    /\ data.fric # VZero
    /\ data.fric = SaturatedFric

\* C16: the speed below which motion counts as equilibrium for the decay is
\* the settle velocity vSettle of the parameters: with the limit not
\* reached and contact present, the decay value -s / tau is assigned
\* exactly when the tangential speed and the normal speed are both below
\* vSettle.
DecayBelowSettleVelocity ==
    (/\ stage = "Acceleration"
     /\ ~data.limitReached
     /\ IsNum(data.fz)
     /\ ~RLt(data.fz, SignificantReal)
     /\ z # Zero)
        => (zdot = RDiv(RNeg(z), params.tau)
              <=> /\ NormLt(VNorm(data.vxy), params.vSettle)
                  /\ RLt(RAbs(data.vz), params.vSettle))

\* C17: resetSprZero sets the spring zero of the state to the plane-local
\* position of the station with its normal component set to zero, and
\* leaves mus, muk, Sliding and the parameters unchanged.
ResetSprZeroContract ==
    [][call'.op = "resetSprZero"
          => /\ \E pl \in PLocal :
                   /\ shiftFrameStationToBase(contactPlane, pl) = p_G
                   /\ sprZero' = Vec(pl[1], pl[2], Zero)
             /\ UNCHANGED <<mus, muk, z, params>>]_vars

\* resetSprZero has been called for a station off the plane and away from
\* the origin of the plane, after Sliding moved from its initial value.
ResetSprZeroWitness ==
    /\ call.op = "resetSprZero"
    /\ z # One
    /\ \E pl \in PLocal :
          /\ shiftFrameStationToBase(contactPlane, pl) = p_G
          /\ pl[3] # Zero
          /\ Vec(pl[1], pl[2], Zero) # VZero
          /\ sprZero = Vec(pl[1], pl[2], Zero)

\* C18: in every reachable state, after any interleaving of construction,
\* resetSprZero, force evaluations and step boundaries, the spring zero of
\* the state and the spring zero in the update cache have a third
\* component of exactly zero.
AnchorsInPlane ==
    /\ sprZero[3] = Zero
    /\ Evaluated => sprZeroInCache[3] = Zero

\* After a step boundary, for a station off the plane, an evaluation has
\* been made with both spring zeros away from the origin of the plane.
AnchorsInPlaneWitness ==
    /\ Evaluated
    /\ nSteps > 0
    /\ data.pz # Zero
    /\ sprZero # VZero
    /\ sprZeroInCache # VZero
    /\ sprZero[3] = Zero
    /\ sprZeroInCache[3] = Zero

\* C19: every component of the plane-local velocity, the two tangential
\* ones and the normal one, whose magnitude is below SignificantReal is
\* replaced by exactly zero before the normal force and the friction force
\* are computed from it.
VelocityNoiseSnapped ==
    Evaluated
        => /\ \A i \in 1..3 :
                 RLt(RAbs(xformBaseVecToFrame(contactPlane, data.v_G)[i]),
                     SignificantReal)
                    => data.v[i] = Zero
           /\ data.vxy = Vec(data.v[1], data.v[2], Zero)
           /\ data.vz = data.v[3]

\* The damper-only force is normalized: the limit is not negligible and the
\* damper candidate is longer than it.
DamperNormalized ==
    /\ ~RLt(data.fxyLimit, SignificantReal)
    /\ NormGt(VNorm(DamperCandidate), data.fxyLimit)

\* C20: in a force evaluation with kpFric > 0 nothing is divided or
\* normalized by zero: the scale fxyLimit / |fricSpr| is computed only when
\* |fricSpr| > fxyLimit >= 0, the damper-only force is normalized only when
\* its length exceeds a limit that is not negligible, and when the limit is
\* negligible the damper-only force is exactly zero; with a limit that is a
\* number every friction value stored is a number.
NoZeroDivisor ==
    (Evaluated /\ RGt(params.kpFric, Zero))
        => /\ data.limitReached
                 => /\ RLe(Zero, data.fxyLimit)
                    /\ NormGt(VNorm(SpringCandidate), data.fxyLimit)
                    /\ RGt(VNorm(SpringCandidate).c, Zero)
           /\ DamperNormalized
                 => /\ RLe(SignificantReal, data.fxyLimit)
                    /\ RGt(VNorm(DamperCandidate).c, Zero)
           /\ RLt(data.fxyLimit, SignificantReal)
                 => /\ FricLimit(data.fxyLimit, DamperCandidate) = VZero
                    /\ SlidingRead(z) = One => data.fricDamp = VZero
           /\ IsNum(data.fxyLimit)
                 => /\ VIsNum(data.fricElas)
                    /\ VIsNum(data.fricDamp)
                    /\ VIsNum(sprZeroInCache)

\* An evaluation that made all three divisions: the spring candidate scaled
\* to the limit, the damper-only force normalized, the new spring zero.
NoZeroDivisorWitness ==
    /\ Evaluated
    /\ call.op = "realizeDynamics"
    /\ RGt(params.kpFric, Zero)
    /\ data.limitReached
    /\ DamperNormalized
    /\ VIsNum(sprZeroInCache)

\* The damper-only candidate: -kvFric*vxy, zero when the limit is
\* negligible, shortened to the length of the limit when it is longer.
DamperOnlyCandidate ==
    IF RLt(data.fxyLimit, SignificantReal) THEN VZero
    ELSE IF NormGt(VNorm(DamperCandidate), data.fxyLimit)
         THEN VScale(RDiv(data.fxyLimit, VNorm(DamperCandidate).c),
                     DamperCandidate)
         ELSE DamperCandidate

\* The factor of the saturation scaling the evaluation applied.
AppliedScale ==
    IF data.limitReached
    THEN RDiv(data.fxyLimit, VNorm(SpringCandidate).c)
    ELSE One

\* C21: when the clamped sliding is 1 the evaluation gives fricElas = 0 and
\* fric equal to the damper-only candidate, whatever the spring zero; when
\* it is 0, fric is the anchored-spring candidate after any saturation
\* scaling and the capped damper has no share in it.
BlendEndpoints ==
    Evaluated
        => /\ SlidingRead(z) = One
                 => /\ data.fricElas = VZero
                    /\ data.fricDamp = DamperOnlyCandidate
                    /\ data.fric = DamperOnlyCandidate
           /\ SlidingRead(z) = Zero
                 => /\ data.fricElas = VScale(AppliedScale, ElasticCandidate)
                    /\ data.fricDamp = VScale(AppliedScale, DamperCandidate)
                    /\ data.fric = VScale(AppliedScale, SpringCandidate)

\* An evaluation with a clamped sliding of 1, the station away from its
\* spring zero and moving along the plane faster than the limit allows: the
\* friction force is the damper candidate shortened to the limit.
BlendEndpointsWitness ==
    /\ Evaluated
    /\ call.op = "realizeDynamics"
    /\ SlidingRead(z) = One
    /\ ElasticCandidate # VZero
    /\ RLe(SignificantReal, data.fxyLimit)
    /\ NormGt(VNorm(DamperCandidate), data.fxyLimit)
    /\ data.fricElas = VZero
    /\ data.fric # VZero
    /\ data.fric # DamperCandidate
    /\ data.fric = DamperOnlyCandidate

\* The offset of a spring zero from the projection pxy of the station in
\* the last evaluation.
AnchorOffset(a) == VSub(a, data.pxy)

=============================================================================
